---- MODULE Spec2Model ----
(***************************************************************************)
(* Model of kalilfin's app.py: the per-ticker analytics pipeline           *)
(* get_stock_data (memoized by functools.lru_cache), the in-memory         *)
(* portfolio dictionary and the Flask handlers home and remove_stock.      *)
(*                                                                         *)
(* Money is counted in thousandths of a currency unit ("mills"), so that   *)
(* round(x, 2) is a real conversion: a rounded field is an integer number  *)
(* of hundredths.  Values that pandas may leave undefined are either NaN   *)
(* or Num(v).                                                              *)
(***************************************************************************)
EXTENDS Integers, Sequences, FiniteSets, TLC

VARIABLES
    upstream,   \* what Yahoo would answer for each symbol right now
    cache,      \* lru_cache of get_stock_data: entries, least recently used first
    portfolio,  \* the portfolio dict: entries in insertion order
    error,      \* home: the error of the last rendered page
    req,        \* the last request served
    trace,      \* observer: the last two get_stock_data calls
    failed,     \* observer: symbols whose failure was returned and is still cached
    recent,     \* observer: symbols by time of their last get_stock_data call
    pc,         \* threaded server: where each worker thread is in home
    tk,         \* threaded server: the thread's ticker (POST)
    cur,        \* threaded server: the symbol of the thread's running call
    data,       \* threaded server: the thread's data (line 105)
    idx,        \* threaded server: position of the thread's iterator over portfolio
    used,       \* threaded server: size of portfolio when the iteration began
    pin,        \* the pipeline alone: the ticker and upstream answer of one body run
    pout        \* the pipeline alone: what that run gave its caller

vars == <<upstream, cache, portfolio, error, req, trace, failed, recent,
          pc, tk, cur, data, idx, used, pin, pout>>

----------------------------------------------------------------------------
(* Bounds of the model and constants of the program *)

\* closing-price histories of 0..MaxHist rows are enumerated
MaxHist == 21
\* lru_cache(maxsize=128), scaled down so that eviction happens within the symbols modelled
maxsize == 2
\* rolling(window=20)
SmaWindow == 20
\* RSIIndicator(window=14)
RsiWindow == 14
\* tail(30)
ChartLen == 30
\* Prophet refuses to fit fewer than 2 rows
MinFitRows == 2

----------------------------------------------------------------------------
(* Python values *)

None == [tag |-> "None"]
NaN == [ok |-> FALSE]
Num(v) == [ok |-> TRUE, v |-> v]
Absent == [present |-> FALSE]
Present(v) == [present |-> TRUE, v |-> v]

\* an exact rational n/d, d > 0, or NaN
Rat(n, d) == [ok |-> TRUE, n |-> n, d |-> d]

\* a < b as IEEE floats compare: any comparison with NaN is false
Less(a, b) == a.ok /\ b.ok /\ a.n * b.d < b.n * a.d

\* n/d rounded to the nearest integer, ties to even (d > 0)
RoundHalfEven(n, d) ==
    LET q == n \div d
        r == n % d
    IN  IF 2 * r < d THEN q
        ELSE IF 2 * r > d THEN q + 1
        ELSE IF q % 2 = 0 THEN q ELSE q + 1

\* round(x, 2) of a value in mills: an integer number of hundredths; NaN stays NaN
Round2(x) == IF x.ok THEN Num(RoundHalfEven(x.n, x.d * 10)) ELSE NaN

\* round(p, 2) of a percentage n/d: hundredths of a percent
Round2Pct(n, d) == Num(RoundHalfEven(n * 100, d))

RECURSIVE Pow(_, _)
Pow(b, e) == IF e = 0 THEN 1 ELSE b * Pow(b, e - 1)

RECURSIVE SumFrom(_, _, _)
\* f[lo] + ... + f[hi]
SumFrom(f, lo, hi) == IF lo > hi THEN 0 ELSE f[lo] + SumFrom(f, lo + 1, hi)

Max(S) == CHOOSE m \in S : \A k \in S : k <= m

----------------------------------------------------------------------------
(* Symbols: strings are sequences of characters *)

Upper(ch) ==
    CASE ch = "a" -> "A"
      [] ch = "p" -> "P"
      [] ch = "l" -> "L"
      [] ch = "z" -> "Z"
      [] OTHER -> ch

IsSpace(ch) == ch = " "

RECURSIVE LStrip(_)
LStrip(s) == IF s # <<>> /\ IsSpace(Head(s)) THEN LStrip(Tail(s)) ELSE s

RECURSIVE RStrip(_)
RStrip(s) ==
    IF s # <<>> /\ IsSpace(s[Len(s)]) THEN RStrip(SubSeq(s, 1, Len(s) - 1)) ELSE s

\* request.form["ticker"].upper().strip()
Normalize(raw) == LStrip(RStrip([i \in 1..Len(raw) |-> Upper(raw[i])]))

Empty == <<>>
AAPL == <<"A", "A", "P", "L">>
ZZ == <<"Z", "Z">>
MSFT == <<"M", "S", "F", "T">>
TSLA == <<"T", "S", "L", "A">>

\* what a client may type into the form or put in the /remove/ URL
RawTickers ==
    { <<>>, <<" ">>,
      <<"a", "a", "p", "l">>, <<" ", "A", "A", "P", "L">>, AAPL,
      <<"z", "z", " ">>, ZZ }

Symbols == { Normalize(raw) : raw \in RawTickers }

\* the symbols get_stock_data is called with when it is driven on its own
CallSymbols == Symbols \cup {MSFT}

\* eco_scores.get(ticker, {"score": 50, "carbon": 5000}), lines 24-28 and 74
eco_score(ticker) ==
    IF ticker = AAPL THEN [score |-> 75, carbon |-> 4500]
    ELSE IF ticker = MSFT THEN [score |-> 80, carbon |-> 3800]
    ELSE IF ticker = TSLA THEN [score |-> 95, carbon |-> 2000]
    ELSE [score |-> 50, carbon |-> 5000]

----------------------------------------------------------------------------
(* The indicator calculator *)

Last(s) == s[Len(s)]

\* the bug of a mean over whatever rows there are (min_periods=1)
SmaLastPartial(closes) ==
    IF closes = <<>> THEN NaN
    ELSE IF Len(closes) < SmaWindow THEN Rat(SumFrom(closes, 1, Len(closes)), Len(closes))
    ELSE Rat(SumFrom(closes, Len(closes) - SmaWindow + 1, Len(closes)), SmaWindow)

\* history['Close'].rolling(window=20).mean().iloc[-1]: NaN below 20 rows
SmaLast(closes) ==
    IF Len(closes) < SmaWindow THEN NaN
    ELSE Rat(SumFrom(closes, Len(closes) - SmaWindow + 1, Len(closes)), SmaWindow)

\* close.diff(1): the first row has no predecessor and counts as no move
Delta(closes, i) == IF i = 1 THEN 0 ELSE closes[i] - closes[i - 1]
UpMove(closes, i) == IF Delta(closes, i) > 0 THEN Delta(closes, i) ELSE 0
DownMove(closes, i) == IF Delta(closes, i) < 0 THEN -Delta(closes, i) ELSE 0

\* how far from the last row the oldest non-zero move is
Reach(closes) ==
    Max({0} \cup { Len(closes) - i : i \in { j \in 1..Len(closes) : Delta(closes, j) # 0 } })

\* ewm(alpha=1/14, adjust=False).mean() at the last row, times 14^(Reach+1):
\* the row k places before the last weighs (13/14)^k / 14
EwmLast(closes, up) ==
    LET n == Len(closes)
        K == Reach(closes)
        move(i) == IF up THEN UpMove(closes, i) ELSE DownMove(closes, i)
        term[i \in 1..n] ==
            IF move(i) = 0 THEN 0
            ELSE move(i) * Pow(RsiWindow - 1, n - i) * Pow(RsiWindow, K - (n - i))
    IN  SumFrom(term, 1, n)

\* the bug of asking for one row more
RsiMinRowsPlusOne == RsiWindow + 1

\* the rows ewm needs before it yields a value (min_periods = window)
RsiMinRows == RsiWindow

\* RSIIndicator(history['Close'], window=14).rsi().iloc[-1], in percent:
\* NaN below min_periods rows, 100 when there is no down move
RsiLast(closes) ==
    IF Len(closes) < RsiMinRows THEN NaN
    ELSE LET up == EwmLast(closes, TRUE)
             dn == EwmLast(closes, FALSE)
         IN  IF dn = 0 THEN Rat(100, 1) ELSE Rat(100 * up, up + dn)

\* round(rsi, 2): hundredths of a percent
RoundRsi(r) == IF r.ok THEN Num(RoundHalfEven(r.n * 100, r.d)) ELSE NaN

\* history['Close'].tail(30).to_list()
ChartData(closes) ==
    IF Len(closes) <= ChartLen THEN closes
    ELSE SubSeq(closes, Len(closes) - ChartLen + 1, Len(closes))

----------------------------------------------------------------------------
(* The signal composer, line 69: compares the unrounded values *)

\* the bug of the comparison turned around
DecisionFlipped(current_price, sma_20) ==
    IF Less(sma_20, current_price) THEN "Buy"
    ELSE IF Less(current_price, sma_20) THEN "Sell"
    ELSE "Hold"

Decision(current_price, sma_20) ==
    IF Less(current_price, sma_20) THEN "Buy"
    ELSE IF Less(sma_20, current_price) THEN "Sell"
    ELSE "Hold"

\* line 71
Change(current_price, closes) ==
    IF Len(closes) > 1
    THEN Round2Pct((current_price - closes[Len(closes) - 1]) * 100, closes[Len(closes) - 1])
    ELSE Num(0)

----------------------------------------------------------------------------
(* get_stock_data's body, lines 32-75.  An upstream answer r is             *)
(*   r.price    info['regularMarketPrice']: Absent, Present(None) or        *)
(*              Present(Num(mills))                                         *)
(*   r.closeCol whether the history frame has a Close column                *)
(*   r.closes   the Close column                                            *)
(*   r.longName, r.volume   info's fields, Absent or Present                *)
(*   r.yhat     Prophet's last forecast in mills, or Absent when it raises  *)

Raise(exc) == [raised |-> TRUE, exc |-> exc]
Return(v) == [raised |-> FALSE, value |-> v]

\* lines 38-49: the current price, or the exception raised on the way
CurrentPrice(r) ==
    IF ~r.price.present
    THEN IF r.closes = <<>> \/ ~r.closeCol
         THEN Raise("ValueError")
         ELSE Return(Present(Num(Last(r.closes))))
    ELSE \* line 46 evaluates history['Close'][-1] before info.get looks the key up
         IF ~r.closeCol THEN Raise("KeyError")
         ELSE IF r.closes = <<>> THEN Raise("IndexError")
         ELSE Return(r.price)

\* lines 56-61: Prophet().fit raises on fewer than 2 rows
Prediction(r) ==
    IF Len(r.closes) < MinFitRows THEN Raise("ValueError")
    ELSE IF ~r.yhat.present THEN Raise("Exception")
    ELSE Return(Round2(Rat(r.yhat.v, 1)))

\* lines 64-75
Snapshot(ticker, r, current_price, prediction) ==
    [ tag        |-> "dict",
      name       |-> IF r.longName.present THEN r.longName.v ELSE ticker,
      price      |-> Round2(Rat(current_price, 1)),
      sma_20     |-> Round2(SmaLast(r.closes)),
      rsi        |-> RoundRsi(RsiLast(r.closes)),
      decision   |-> Decision(Rat(current_price, 1), SmaLast(r.closes)),
      volume     |-> IF r.volume.present THEN r.volume.v ELSE 0,
      change     |-> Change(current_price, r.closes),
      chart_data |-> ChartData(r.closes),
      prediction |-> prediction,
      eco_score  |-> eco_score(ticker) ]

Body(ticker, r) ==
    LET cp == CurrentPrice(r)
        pr == Prediction(r)
    IN  IF cp.raised THEN cp
        ELSE IF pr.raised THEN pr
        ELSE IF cp.value.v = None THEN Raise("TypeError")   \* round(None, 2)
        ELSE Return(Snapshot(ticker, r, cp.value.v.v, pr.value))

\* the bug of a narrower except clause
CatchesValueError(exc) == exc = "ValueError"

\* line 76: except Exception
Catches(exc) == exc \in {"Exception", "ValueError", "KeyError", "IndexError", "TypeError"}

\* the function as its caller sees it: a dict, None, or an exception let through
get_stock_data(ticker, r) ==
    LET b == Body(ticker, r)
    IN  IF ~b.raised THEN b.value
        ELSE IF Catches(b.exc) THEN None
        ELSE [tag |-> "raised", exc |-> b.exc]

----------------------------------------------------------------------------
(* The upstream answers enumerated *)

\* n closes: 1000 mills throughout, then p and l as the last two
Hist(n, p, l) ==
    [i \in 1..n |-> IF i = n THEN l ELSE IF i = n - 1 THEN p ELSE 1000]

Histories == { Hist(n, p, l) : n \in 0..MaxHist, p \in {1000, 1002}, l \in {996, 1000, 1004} }

Prices == {Absent, Present(None), Present(Num(996)), Present(Num(1000)), Present(Num(1004))}

AllAnswers ==
    [ price    : Prices,
      closeCol : BOOLEAN,
      closes   : Histories,
      longName : {Absent, Present("Apple Inc.")},
      volume   : {Absent, Present(52000)},
      yhat     : {Absent, Present(1003)} ]

\* an unknown symbol: no price in info, an empty history frame
NotFound ==
    [ price |-> Absent, closeCol |-> TRUE, closes |-> <<>>,
      longName |-> Absent, volume |-> Absent, yhat |-> Absent ]

\* a listed symbol with a full month of closes
Listed ==
    [ price |-> Present(Num(1004)), closeCol |-> TRUE, closes |-> Hist(MaxHist, 1000, 1000),
      longName |-> Present("Apple Inc."), volume |-> Present(52000), yhat |-> Present(1003) ]

\* what the upstream may answer for a symbol: nothing is listed under the empty symbol
Answers(s) == IF s = Empty THEN {NotFound} ELSE {NotFound, Listed}

----------------------------------------------------------------------------
(* The pipeline on its own: one body run on one enumerated input *)

Pending == [tag |-> "pending"]
NoInput == [tag |-> "none"]
NoError == [tag |-> "None"]

Threads == {1, 2}

IdleThreads ==
    /\ pc = [t \in Threads |-> "idle"]
    /\ tk = [t \in Threads |-> Empty]
    /\ cur = [t \in Threads |-> Empty]
    /\ data = [t \in Threads |-> None]
    /\ idx = [t \in Threads |-> 0]
    /\ used = [t \in Threads |-> 0]

FreshServer ==
    /\ upstream \in [CallSymbols -> {NotFound}]
    /\ cache = <<>>
    /\ portfolio = <<>>
    /\ error = NoError
    /\ req = [route |-> "none"]
    /\ trace = <<>>
    /\ failed = {}
    /\ recent = <<>>

InitPipe ==
    /\ FreshServer
    /\ IdleThreads
    /\ pin \in [ticker : Symbols \ {Empty}, r : AllAnswers]
    /\ pout = Pending

RunBody ==
    /\ pout = Pending
    /\ pout' = get_stock_data(pin.ticker, pin.r)
    /\ UNCHANGED <<upstream, cache, portfolio, error, req, trace, failed, recent,
                   pc, tk, cur, data, idx, used, pin>>

NextPipe == RunBody

SpecPipe == InitPipe /\ [][NextPipe]_vars

----------------------------------------------------------------------------
(* functools.lru_cache around get_stock_data, line 30 *)

Keys(c) == { c[i].key : i \in 1..Len(c) }
IndexOf(c, t) == CHOOSE i \in 1..Len(c) : c[i].key = t
ValueOf(c, t) == c[IndexOf(c, t)].value
Without(c, i) == SubSeq(c, 1, i - 1) \o SubSeq(c, i + 1, Len(c))

\* the bug of taking a stored None for a miss
HitUnlessNone(c, t) == t \in { c[i].key : i \in { j \in 1..Len(c) : c[j].value # None } }

\* a hit: the key has an entry, whatever its value (None is a value like any other)
Hit(c, t) == t \in Keys(c)

\* a hit makes the entry the most recently used
Touch(c, t) == Append(Without(c, IndexOf(c, t)), c[IndexOf(c, t)])

\* the bug of evicting the most recently used entry
VictimNewest(c) == Len(c)

\* the entry a full cache gives up: the least recently used
Victim(c) == 1

Full(c) == Len(c) >= maxsize

\* the bug of a wrapper that stores nothing
NoInsert(c, t, v) == c

\* the new entry becomes the most recently used; a full cache evicts first
Insert(c, t, v) ==
    IF Full(c)
    THEN Append(Without(c, Victim(c)), [key |-> t, value |-> v])
    ELSE Append(c, [key |-> t, value |-> v])

Evicted(c) == IF Full(c) THEN {c[Victim(c)].key} ELSE {}

----------------------------------------------------------------------------
(* One get_stock_data call of a single-threaded server, with its observers. *)
(* m holds the cache and the observers; up is the upstream at that moment.  *)

\* the function's outcome on each answer the upstream may give, computed once
Fetched == [t \in CallSymbols, r \in {NotFound, Listed} |-> get_stock_data(t, r)]

MoveToEnd(s, t) == Append(SelectSeq(s, LAMBDA x : x # t), t)

\* of the symbols in S, the one called longest ago
Oldest(order, S) ==
    IF S = {} THEN {}
    ELSE {order[CHOOSE i \in 1..Len(order) :
              /\ order[i] \in S
              /\ \A j \in 1..Len(order) : order[j] \in S => i <= j]}

LastTwo(s) == IF Len(s) > 2 THEN Tail(s) ELSE s

Call(m, t, up) ==
    LET hit     == Hit(m.cache, t)
        result  == IF hit THEN ValueOf(m.cache, t) ELSE Fetched[t, up[t]]
        evicted == IF hit THEN {} ELSE Evicted(m.cache)
        after   == IF hit THEN Touch(m.cache, t) ELSE Insert(m.cache, t, result)
    IN  [ cache  |-> after,
          result |-> result,
          trace  |-> LastTwo(Append(m.trace,
                        [ ticker    |-> t,
                          fetch     |-> ~hit,
                          result    |-> result,
                          wasFailed |-> t \in m.failed,
                          wasFull   |-> Full(m.cache),
                          before    |-> Keys(m.cache),
                          after     |-> Keys(after),
                          evicted   |-> evicted,
                          oldest    |-> Oldest(m.recent, Keys(m.cache)) ])),
          failed |-> (m.failed \ evicted) \cup (IF result = None THEN {t} ELSE {}),
          recent |-> MoveToEnd(m.recent, t) ]

----------------------------------------------------------------------------
(* The portfolio dict *)

PKeys(p) == { p[i].key : i \in 1..Len(p) }
PIndex(p, t) == CHOOSE i \in 1..Len(p) : p[i].key = t

\* portfolio[ticker] = data: an existing key keeps its place
Put(p, t, d) ==
    IF t \in PKeys(p)
    THEN [p EXCEPT ![PIndex(p, t)] = [key |-> t, value |-> d]]
    ELSE Append(p, [key |-> t, value |-> d])

\* portfolio.pop(ticker, None)
Pop(p, t) == SelectSeq(p, LAMBDA e : e.key # t)

\* if data: a dict with keys is true, None is false
Truthy(d) == d # None

\* the bug of storing whatever the call returned
AddAlways(p, t, d) == Put(p, t, d)

\* lines 106-107
AddToPortfolio(p, t, d) == IF Truthy(d) THEN Put(p, t, d) ELSE p

\* lines 108-109
ErrorFor(t, d) == IF Truthy(d) THEN NoError ELSE [tag |-> "Invalid ticker", ticker |-> t]

----------------------------------------------------------------------------
(* The handlers, each served to its end before the next request *)

Observed == [cache |-> cache, trace |-> trace, failed |-> failed, recent |-> recent]

RECURSIVE NewsLoop(_, _, _, _)
\* line 111: get_stock_data(ticker) for every key of portfolio, in the dict's order
NewsLoop(m, p, i, up) ==
    IF i > Len(p) THEN m
    ELSE NewsLoop(Call(m, p[i].key, up), p, i + 1, up)

Served(m) ==
    /\ cache' = m.cache
    /\ trace' = m.trace
    /\ failed' = m.failed
    /\ recent' = m.recent

\* POST /, lines 103-111
home_POST(raw) ==
    LET ticker == Normalize(raw)
        m1     == Call(Observed, ticker, upstream)
        p1     == AddToPortfolio(portfolio, ticker, m1.result)
        m2     == NewsLoop(m1, p1, 1, upstream)
    IN  /\ portfolio' = p1
        /\ error' = ErrorFor(ticker, m1.result)
        /\ req' = [route |-> "home", method |-> "POST", ticker |-> ticker, data |-> m1.result]
        /\ Served(m2)
        /\ UNCHANGED <<upstream, pc, tk, cur, data, idx, used, pin, pout>>

\* GET /, lines 102 and 111
home_GET ==
    /\ error' = NoError
    /\ req' = [route |-> "home", method |-> "GET"]
    /\ Served(NewsLoop(Observed, portfolio, 1, upstream))
    /\ UNCHANGED <<upstream, portfolio, pc, tk, cur, data, idx, used, pin, pout>>

\* GET /remove/<ticker>, lines 339-342: the key is taken as the URL gives it
remove_stock(raw) ==
    /\ raw # <<>>
    /\ portfolio' = Pop(portfolio, raw)
    /\ req' = [route |-> "remove", ticker |-> raw]
    /\ UNCHANGED <<upstream, cache, error, trace, failed, recent,
                   pc, tk, cur, data, idx, used, pin, pout>>

\* the market moves, a symbol is listed or delisted: not a step of the program
UpstreamChanges(s, r) ==
    /\ upstream[s] # r
    /\ upstream' = [upstream EXCEPT ![s] = r]
    /\ UNCHANGED <<cache, portfolio, error, req, trace, failed, recent,
                   pc, tk, cur, data, idx, used, pin, pout>>

Init ==
    /\ FreshServer
    /\ IdleThreads
    /\ pin = NoInput
    /\ pout = Pending

Next ==
    \/ \E raw \in RawTickers : home_POST(raw)
    \/ home_GET
    \/ \E raw \in RawTickers : remove_stock(raw)
    \/ \E s \in Symbols : \E r \in Answers(s) : UpstreamChanges(s, r)

Spec == Init /\ [][Next]_vars

----------------------------------------------------------------------------
(* get_stock_data driven on its own: any sequence of calls *)

CallOnce(t) ==
    /\ Served(Call(Observed, t, upstream))
    /\ UNCHANGED <<upstream, portfolio, error, req, pc, tk, cur, data, idx, used, pin, pout>>

NextCalls ==
    \/ \E t \in CallSymbols : CallOnce(t)
    \/ \E s \in CallSymbols : \E r \in Answers(s) : UpstreamChanges(s, r)

SpecCalls == Init /\ [][NextCalls]_vars

----------------------------------------------------------------------------
(* The threaded server: each worker thread runs home, and the threads       *)
(* interleave wherever home waits: inside get_stock_data's body (the        *)
(* sleep of line 34 and the requests that follow), and between the calls.   *)
(* lru_cache holds no lock while the function it wraps runs.  The threads   *)
(* here serve POST / and GET /.                                             *)

InBody == {"body105", "body111"}

\* the handler's place after a get_stock_data call returned
AfterCall(th, result) ==
    IF pc[th] \in {"call105", "body105"}
    THEN /\ data' = [data EXCEPT ![th] = result]
         /\ pc' = [pc EXCEPT ![th] = "add"]
    ELSE /\ data' = data
         /\ pc' = [pc EXCEPT ![th] = "iter"]

\* line 104, and line 105 up to the call
ReceivePost(th, raw) ==
    /\ pc[th] = "idle"
    /\ tk' = [tk EXCEPT ![th] = Normalize(raw)]
    /\ cur' = [cur EXCEPT ![th] = Normalize(raw)]
    /\ pc' = [pc EXCEPT ![th] = "call105"]
    /\ UNCHANGED <<upstream, cache, portfolio, error, req, trace, failed, recent,
                   data, idx, used, pin, pout>>

\* a GET goes straight to line 111
ReceiveGet(th) ==
    /\ pc[th] = "idle"
    /\ pc' = [pc EXCEPT ![th] = "news"]
    /\ UNCHANGED <<upstream, cache, portfolio, error, req, trace, failed, recent,
                   tk, cur, data, idx, used, pin, pout>>

\* the wrapper looks the key up: a hit returns at once, a miss enters the body
Lookup(th) ==
    /\ pc[th] \in {"call105", "call111"}
    /\ IF Hit(cache, cur[th])
       THEN /\ cache' = Touch(cache, cur[th])
            /\ AfterCall(th, ValueOf(cache, cur[th]))
       ELSE /\ cache' = cache
            /\ data' = data
            /\ pc' = [pc EXCEPT ![th] = IF pc[th] = "call105" THEN "body105" ELSE "body111"]
    /\ UNCHANGED <<upstream, portfolio, error, req, trace, failed, recent,
                   tk, cur, idx, used, pin, pout>>

\* the body ends; the wrapper stores its result unless the key got an entry meanwhile
BodyReturns(th) ==
    /\ pc[th] \in InBody
    /\ cache' = IF cur[th] \in Keys(cache) THEN cache
                ELSE Insert(cache, cur[th], Fetched[cur[th], upstream[cur[th]]])
    /\ AfterCall(th, Fetched[cur[th], upstream[cur[th]]])
    /\ UNCHANGED <<upstream, portfolio, error, req, trace, failed, recent,
                   tk, cur, idx, used, pin, pout>>

\* lines 106-109
Add(th) ==
    /\ pc[th] = "add"
    /\ portfolio' = AddToPortfolio(portfolio, tk[th], data[th])
    /\ pc' = [pc EXCEPT ![th] = "news"]
    /\ UNCHANGED <<upstream, cache, error, req, trace, failed, recent,
                   tk, cur, data, idx, used, pin, pout>>

\* line 111: the comprehension takes an iterator over portfolio.keys()
IterStart(th) ==
    /\ pc[th] = "news"
    /\ idx' = [idx EXCEPT ![th] = 0]
    /\ used' = [used EXCEPT ![th] = Len(portfolio)]
    /\ pc' = [pc EXCEPT ![th] = "iter"]
    /\ UNCHANGED <<upstream, cache, portfolio, error, req, trace, failed, recent,
                   tk, cur, data, pin, pout>>

\* the iterator's next: a dict that changed size raises RuntimeError and ends the
\* request; at the end of the dict the page is rendered
IterNext(th) ==
    /\ pc[th] = "iter"
    /\ IF Len(portfolio) # used[th] \/ idx[th] >= Len(portfolio)
       THEN \* the request is over and its locals are gone
            /\ pc' = [pc EXCEPT ![th] = "idle"]
            /\ tk' = [tk EXCEPT ![th] = Empty]
            /\ cur' = [cur EXCEPT ![th] = Empty]
            /\ data' = [data EXCEPT ![th] = None]
            /\ idx' = [idx EXCEPT ![th] = 0]
            /\ used' = [used EXCEPT ![th] = 0]
       ELSE /\ cur' = [cur EXCEPT ![th] = portfolio[idx[th] + 1].key]
            /\ idx' = [idx EXCEPT ![th] = idx[th] + 1]
            /\ pc' = [pc EXCEPT ![th] = "call111"]
            /\ UNCHANGED <<tk, data, used>>
    /\ UNCHANGED <<upstream, cache, portfolio, error, req, trace, failed, recent, pin, pout>>

NextConc ==
    \/ \E th \in Threads : \E raw \in RawTickers : ReceivePost(th, raw)
    \/ \E th \in Threads : ReceiveGet(th)
    \/ \E th \in Threads : Lookup(th)
    \/ \E th \in Threads : BodyReturns(th)
    \/ \E th \in Threads : Add(th)
    \/ \E th \in Threads : IterStart(th)
    \/ \E th \in Threads : IterNext(th)
    \/ \E s \in Symbols : \E r \in Answers(s) : UpstreamChanges(s, r)

SpecConc == Init /\ [][NextConc]_vars

----------------------------------------------------------------------------
(* The claims *)

IsPost(r) == r.route = "home" /\ r.method = "POST"

\* C1: a POST to home whose get_stock_data call fails leaves the portfolio exactly as it
\* was (no entry created, removed or replaced) and only sets the error message
C1_FailedAddKeepsPortfolio ==
    [][ (IsPost(req') /\ req'.data = None)
          => (portfolio' = portfolio /\ error' = [tag |-> "Invalid ticker", ticker |-> req'.ticker]) ]_vars

\* C1's case: an add failed for a symbol whose earlier snapshot is still in the portfolio
C1_Witness ==
    /\ IsPost(req)
    /\ req.data = None
    /\ error # NoError
    /\ req.ticker \in PKeys(portfolio)

\* C2: of two get_stock_data calls in immediate succession for one symbol, the second
\* fetches nothing upstream and returns what the first returned
C2_SecondCallServedFromCache ==
    (Len(trace) = 2 /\ trace[1].ticker = trace[2].ticker)
        => (~trace[2].fetch /\ trace[2].result = trace[1].result)

\* C2's case: the first call fetched and the second, for the same symbol, followed it
C2_Witness ==
    /\ Len(trace) = 2
    /\ trace[1].ticker = trace[2].ticker
    /\ trace[1].fetch
    /\ trace[1].result # None

\* C3 as claimed: no two threads are inside get_stock_data's body (the delay and the
\* upstream fetch) for the same symbol at once
C3_OneFetchInFlightPerSymbol ==
    \A a \in Threads : \A b \in Threads :
        (a # b /\ pc[a] \in InBody /\ pc[b] \in InBody) => cur[a] # cur[b]

\* C4: the cache never holds more than maxsize symbols; a miss on a full cache evicts
\* the symbol called longest ago and keeps every other entry; nothing else evicts
C4_BoundedLru ==
    /\ Len(cache) <= maxsize
    /\ Cardinality(Keys(cache)) = Len(cache)
    /\ \A i \in 1..Len(trace) :
          LET c == trace[i]
          IN  /\ Cardinality(c.after) <= maxsize
              /\ (c.fetch /\ c.wasFull)
                    => /\ c.evicted # {}
                       /\ c.evicted = c.oldest
                       /\ c.after = (c.before \ c.evicted) \cup {c.ticker}
              /\ ~(c.fetch /\ c.wasFull)
                    => /\ c.evicted = {}
                       /\ c.after = c.before \cup {c.ticker}

\* C4's case: a miss arrived at a full cache
C4_Witness ==
    \E i \in 1..Len(trace) :
        /\ trace[i].fetch
        /\ trace[i].wasFull
        /\ Cardinality(trace[i].before) = maxsize
        /\ trace[i].evicted # {}

\* the current price the body works with, unrounded
RawPrice(r) == IF r.price.present THEN r.price.v.v ELSE r.closes[Len(r.closes)]

\* the sum of the last 20 closes
RawSum(r) == SumFrom(r.closes, Len(r.closes) - SmaWindow + 1, Len(r.closes))

C6_EmptySymbolNeverFetched ==
    \A i \in 1..Len(trace) : trace[i].ticker = Empty => ~trace[i].fetch

Fields ==
    {"tag", "name", "price", "sma_20", "rsi", "decision", "volume", "change",
     "chart_data", "prediction", "eco_score"}

C9_NeverRaises ==
    pout # Pending => (pout = None \/ (pout.tag = "dict" /\ DOMAIN pout = Fields))

\* C9's case: the body raised (round(None, 2), a TypeError) and the caller got None
C9_Witness ==
    /\ pout = None
    /\ pin.r.price = Present(None)
    /\ pin.r.closeCol
    /\ Len(pin.r.closes) >= MinFitRows
    /\ pin.r.yhat.present

\* C10: a symbol whose failure was returned and is still cached gets the failure again
\* on every later call, without a fetch; a retried add for it leaves the portfolio alone
C10_FailureMemoized ==
    [][ /\ \A i \in 1..Len(trace') :
              trace'[i].wasFailed => (trace'[i].result = None /\ ~trace'[i].fetch)
        /\ (IsPost(req') /\ req'.ticker \in failed)
              => (req'.data = None /\ portfolio' = portfolio) ]_vars

\* C10's case: the retry failed from the cache although the upstream now lists the symbol
C10_Witness ==
    /\ IsPost(req)
    /\ req.data = None
    /\ upstream[req.ticker] = Listed
    /\ req.ticker \notin PKeys(portfolio)
    /\ Len(trace) = 2
    /\ trace[2].wasFailed
    /\ ~trace[2].fetch

====
